---- MODULE Spec2Model ----
(***************************************************************************)
(* Arma3-Utils: modpacksize.py (Program A, the mod size report) and        *)
(* unusedmods.py (Program B, the unused mods report).                      *)
(*                                                                         *)
(* A mod name is a sequence of one-character strings.  A parsed export     *)
(* (the BeautifulSoup tree) is the sequence of its td elements in document *)
(* order, each with its parent's data-type attribute, its own data-type    *)
(* attribute and its text; an attribute that is not there is NoAttr.  The  *)
(* file system under <arma_root>/!Workshop is a function from folder names *)
(* to Folder.Size, or NoFolder where GetFolder raises com_error.  Sizes    *)
(* are whole numbers of KiB, so that a size in MB is size/1024 exactly.    *)
(***************************************************************************)
EXTENDS Integers, Sequences, FiniteSets, TLC

VARIABLES
    prog,               \* the program whose copy of a function is called
    soup,               \* get_mod_names: the parsed document
    got,                \* get_mod_names: its outcome
    san,                \* the mod_name values of successive sanitizations
    fs,                 \* folder name -> size in KiB, or NoFolder
    mod_names,          \* per program: the list the size loop iterates over
    mod_sizes,          \* per program: the sizes appended so far
    mod_name,           \* per program: the loop variable
    mod_size,           \* per program: the size of the current mod
    idx,                \* per program: how many names the loop has taken
    lookups,            \* per program: the calls of _get_dir_size made
    report,             \* per program: what _print_info printed
    pc,                 \* per program: where the program is
    html_files,         \* Program B: the parsed active modpack files
    all_mods_file,      \* Program B: the parsed all-mods file
    active_mod_names,   \* Program B main
    all_mod_names,      \* Program B main
    unused_mod_names,   \* Program B main
    file_no,            \* Program B main: how many of html_files are read
    upc,                \* Program B main: position before the size loop
    p_names,            \* _print_info: argument mod_names
    p_sizes,            \* _print_info: argument mod_sizes
    printed             \* _print_info: what it printed

varsExtract == <<soup, got>>
varsSan     == <<san>>
varsResolve == <<fs, mod_names, mod_sizes, mod_name, mod_size, idx, lookups, report, pc>>
varsUnused  == <<html_files, all_mods_file, active_mod_names, all_mod_names,
                 unused_mod_names, file_no, upc>>
varsPrint   == <<p_names, p_sizes, printed>>
vars == <<prog, varsExtract, varsSan, varsResolve, varsUnused, varsPrint>>

--------------------------------------------------------------------------
(* Bounds *)

MaxTds == 4
MaxNameLen == 3
MaxMods == 2
MaxFiles == 2
MaxActiveLen == 1
MaxAllLen == 4
MaxRows == 2

--------------------------------------------------------------------------
(* Values *)

NoAttr == "<no data-type>"
NoFolder == -1
NoReport == [rows |-> <<>>, total_size_mb |-> -1, total_size_gb |-> -1]
Progs == {"A", "B"}

SeqsUpTo(S, n) == UNION {[1..k -> S] : k \in 0..n}

Last(s) == s[Len(s)]

Range(s) == {s[i] : i \in 1..Len(s)}

RECURSIVE SumSeq(_)
SumSeq(s) == IF s = <<>> THEN 0 ELSE s[1] + SumSeq(Tail(s))

Returned(v) == [raised |-> FALSE, value |-> v]
Raised(e) == [raised |-> TRUE, value |-> e]

--------------------------------------------------------------------------
(* _get_mod_names *)

(* A variant that inserts each name at the front of mod_names. *)
RECURSIVE get_mod_names_rev(_, _, _)
get_mod_names_rev(tds, k, acc) ==
    IF k > Len(tds) THEN Returned(acc)
    ELSE IF tds[k].parent = NoAttr THEN Raised("KeyError")
    ELSE IF tds[k].parent = "ModContainer" /\ tds[k].type = "DisplayName"
         THEN get_mod_names_rev(tds, k + 1, <<tds[k].text>> \o acc)
    ELSE get_mod_names_rev(tds, k + 1, acc)

(* A variant without the test of the parent. *)
RECURSIVE get_mod_names_anyparent(_, _, _)
get_mod_names_anyparent(tds, k, acc) ==
    IF k > Len(tds) THEN Returned(acc)
    ELSE IF tds[k].type = "DisplayName"
         THEN get_mod_names_anyparent(tds, k + 1, Append(acc, tds[k].text))
    ELSE get_mod_names_anyparent(tds, k + 1, acc)

(* modpacksize.py: the loop over soup.find_all("td") from td number k on,  *)
(* with mod_names = acc.  td.parent['data-type'] is outside the try, so a  *)
(* parent without the attribute raises KeyError out of the function; the   *)
(* KeyError of td['data-type'] is caught and passed.                       *)
RECURSIVE get_mod_names_loop(_, _, _)
get_mod_names_loop(tds, k, acc) ==
    IF k > Len(tds) THEN Returned(acc)
    ELSE IF tds[k].parent = NoAttr THEN Raised("KeyError")
    ELSE IF tds[k].parent = "ModContainer"
         THEN IF tds[k].type = NoAttr
              THEN get_mod_names_loop(tds, k + 1, acc)
              ELSE IF tds[k].type = "DisplayName"
                   THEN get_mod_names_loop(tds, k + 1, Append(acc, tds[k].text))
                   ELSE get_mod_names_loop(tds, k + 1, acc)
    ELSE get_mod_names_loop(tds, k + 1, acc)

get_mod_names_reversed(tds) == get_mod_names_rev(tds, 1, <<>>)

get_mod_names_ignoring_parent(tds) == get_mod_names_anyparent(tds, 1, <<>>)

get_mod_names(tds) == get_mod_names_loop(tds, 1, <<>>)

(* unusedmods.py: its own copy of the same function. *)
RECURSIVE get_mod_names_loop_B(_, _, _)
get_mod_names_loop_B(tds, k, acc) ==
    IF k > Len(tds) THEN Returned(acc)
    ELSE IF tds[k].parent = NoAttr THEN Raised("KeyError")
    ELSE IF tds[k].parent = "ModContainer"
         THEN IF tds[k].type = NoAttr
              THEN get_mod_names_loop_B(tds, k + 1, acc)
              ELSE IF tds[k].type = "DisplayName"
                   THEN get_mod_names_loop_B(tds, k + 1, Append(acc, tds[k].text))
                   ELSE get_mod_names_loop_B(tds, k + 1, acc)
    ELSE get_mod_names_loop_B(tds, k + 1, acc)

get_mod_names_B(tds) == get_mod_names_loop_B(tds, 1, <<>>)

(* The td elements the extraction is run on: every combination of parent   *)
(* tag and own tag, and a second named cell with another text.             *)
ParentTags == {"ModContainer", "DlcContainer", NoAttr}
TypeTags == {"DisplayName", "Link", NoAttr}
Td(parent, type, text) == [parent |-> parent, type |-> type, text |-> text]
Tds == {Td(p, t, <<"a">>) : p \in ParentTags, t \in TypeTags}
           \cup {Td("ModContainer", "DisplayName", <<"b", ":">>)}

NotCalled == [raised |-> FALSE, value |-> <<"not called">>]

IdleExtract == soup = <<>> /\ got = NotCalled

IdleSan == san = <<>>

IdleResolve ==
    /\ fs = <<>>
    /\ mod_names = [p \in Progs |-> <<>>]
    /\ mod_sizes = [p \in Progs |-> <<>>]
    /\ mod_name = [p \in Progs |-> <<>>]
    /\ mod_size = [p \in Progs |-> 0]
    /\ idx = [p \in Progs |-> 0]
    /\ lookups = [p \in Progs |-> <<>>]
    /\ report = [p \in Progs |-> NoReport]
    /\ pc = [p \in Progs |-> "idle"]

IdleUnused ==
    /\ html_files = <<>> /\ all_mods_file = <<>>
    /\ active_mod_names = <<>> /\ all_mod_names = <<>> /\ unused_mod_names = <<>>
    /\ file_no = 0 /\ upc = "idle"

IdlePrint == p_names = <<>> /\ p_sizes = <<>> /\ printed = NoReport

(* mod_names = _get_mod_names(soup), in either program. *)
InitExtract ==
    /\ prog \in Progs
    /\ soup \in SeqsUpTo(Tds, MaxTds)
    /\ got = NotCalled
    /\ IdleSan /\ IdleResolve /\ IdleUnused /\ IdlePrint

A_GetModNames ==
    /\ prog = "A" /\ got = NotCalled
    /\ got' = get_mod_names(soup)
    /\ UNCHANGED <<prog, soup, varsSan, varsResolve, varsUnused, varsPrint>>

B_GetModNames ==
    /\ prog = "B" /\ got = NotCalled
    /\ got' = get_mod_names_B(soup)
    /\ UNCHANGED <<prog, soup, varsSan, varsResolve, varsUnused, varsPrint>>

NextExtract == A_GetModNames \/ B_GetModNames

SpecExtract == InitExtract /\ [][NextExtract]_vars

(* The names a document holds: the texts of its DisplayName cells that sit *)
(* directly in a ModContainer, in document order.                          *)
IsNameCell(td) == td.parent = "ModContainer" /\ td.type = "DisplayName"
NameCells(tds) == SelectSeq(tds, IsNameCell)
NamesOf(tds) == [k \in 1..Len(NameCells(tds)) |-> NameCells(tds)[k].text]
ParentsTagged(tds) == \A k \in 1..Len(tds) : tds[k].parent # NoAttr

(* C2: _get_mod_names returns exactly the texts of the cells tagged         *)
(* DisplayName whose parent is tagged ModContainer, in document order; a    *)
(* cell under a parent tagged otherwise, an untagged cell under a           *)
(* ModContainer and a cell under a ModContainer tagged otherwise add        *)
(* nothing and raise nothing: the call raises only when some cell's parent  *)
(* carries no type tag at all.                                              *)
C2_NamesInDocumentOrder ==
    got # NotCalled =>
        /\ got.raised <=> ~ParentsTagged(soup)
        /\ ~got.raised => got.value = NamesOf(soup)

C2_Witness ==
    /\ got # NotCalled /\ ~got.raised
    /\ got.value = <<<<"b", ":">>, <<"a">>>>
    /\ \E k \in 1..Len(soup) : soup[k].parent = "DlcContainer"
    /\ \E k \in 1..Len(soup) :
          soup[k].parent = "ModContainer" /\ soup[k].type \in {NoAttr, "Link"}

NoModContainer(tds) == \A k \in 1..Len(tds) : tds[k].parent # "ModContainer"

(* C3 as stated: a document with no ModContainer element gives the empty    *)
(* sequence, also when a cell's parent carries no type tag.                 *)
C3_AsStated ==
    (got # NotCalled /\ NoModContainer(soup)) => (~got.raised /\ got.value = <<>>)

(* C3, amended: a document with no ModContainer element, every cell's       *)
(* parent carrying some type tag, gives the empty sequence; with a cell     *)
(* whose parent carries no type tag the call raises KeyError instead.       *)
C3_EmptyWithoutModContainer ==
    (got # NotCalled /\ NoModContainer(soup)) =>
        IF ParentsTagged(soup)
        THEN ~got.raised /\ got.value = <<>>
        ELSE got = Raised("KeyError")

C3_Witness ==
    /\ got = Returned(<<>>)
    /\ Len(soup) >= 2
    /\ \A k \in 1..Len(soup) : soup[k].parent = "DlcContainer"
    /\ \E k \in 1..Len(soup) : soup[k].type = "DisplayName"

--------------------------------------------------------------------------
(* The sanitization of the fallback *)

Chars == {"a", ":", "/", "-"}

(* A variant of replace that stops at the first occurrence. *)
RECURSIVE ReplaceFirst(_, _, _)
ReplaceFirst(s, old, new) ==
    IF s = <<>> THEN <<>>
    ELSE IF s[1] = old THEN <<new>> \o Tail(s)
    ELSE <<s[1]>> \o ReplaceFirst(Tail(s), old, new)

(* str.replace(old, new) with one-character old and new: every occurrence. *)
Replace(s, old, new) == [k \in 1..Len(s) |-> IF s[k] = old THEN new ELSE s[k]]

(* Variants with one of the two replacements left out. *)
sanitize_colon_only(name) == Replace(name, ":", "-")

sanitize_slash_only(name) == Replace(name, "/", "-")

(* modpacksize.py: the two assignments to mod_name in the except branch. *)
sanitize(name) == Replace(Replace(name, ":", "-"), "/", "-")

(* unusedmods.py: the same two assignments. *)
sanitize_B(name) == Replace(Replace(name, ":", "-"), "/", "-")

InitSanitize ==
    /\ prog \in Progs
    /\ \E n \in SeqsUpTo(Chars, MaxNameLen) : san = <<n>>
    /\ IdleExtract /\ IdleResolve /\ IdleUnused /\ IdlePrint

A_Sanitize ==
    /\ prog = "A" /\ Len(san) < 3
    /\ san' = Append(san, sanitize(Last(san)))
    /\ UNCHANGED <<prog, varsExtract, varsResolve, varsUnused, varsPrint>>

B_Sanitize ==
    /\ prog = "B" /\ Len(san) < 3
    /\ san' = Append(san, sanitize_B(Last(san)))
    /\ UNCHANGED <<prog, varsExtract, varsResolve, varsUnused, varsPrint>>

NextSanitize == A_Sanitize \/ B_Sanitize

SpecSanitize == InitSanitize /\ [][NextSanitize]_vars

(* C7: the sanitization is defined for every name, keeps the name's length, *)
(* puts '-' where the name has ':' or '/', leaves every other character at  *)
(* its position, leaves no ':' or '/', and applied to its own result gives  *)
(* that result again.                                                       *)
C7_SanitizeTotalIdempotent ==
    /\ Len(san) = 1 => ENABLED NextSanitize
    /\ Len(san) >= 2 =>
          /\ Len(san[2]) = Len(san[1])
          /\ \A k \in 1..Len(san[1]) :
                san[2][k] = (IF san[1][k] \in {":", "/"} THEN "-" ELSE san[1][k])
          /\ \A k \in 1..Len(san[2]) : san[2][k] \notin {":", "/"}
    /\ Len(san) >= 3 => san[3] = san[2]

C7_Witness ==
    /\ Len(san) = 3
    /\ Len(san[1]) = 3
    /\ san[1][1] = ":" /\ san[1][2] = ":" /\ san[1][3] = "/"
    /\ san[3] = <<"-", "-", "-">>

--------------------------------------------------------------------------
(* _print_info *)

Min(a, b) == IF a < b THEN a ELSE b

(* The integer nearest to num/den, a tie going to the even one: round() of *)
(* a float that holds num/den exactly.                                     *)
RoundHalfEven(num, den) ==
    LET q == num \div den
        r == num % den
    IN  IF 2 * r < den THEN q
        ELSE IF 2 * r > den THEN q + 1
        ELSE IF q % 2 = 0 THEN q ELSE q + 1

(* round(size, 3) of a size of kib/1024 MB, in thousandths of a MB. *)
RoundRow(kib) == RoundHalfEven(1000 * kib, 1024)

(* round(sum(mod_sizes), 2), in hundredths of a MB. *)
RoundTotalMb(kib) == RoundHalfEven(100 * kib, 1024)

(* round(total_size_mb / 1024.0, 3), in thousandths of a GB, for a         *)
(* total_size_mb of centi/100.  total_size_mb is the float nearest to      *)
(* centi/100: it holds centi/100 exactly when centi is a multiple of 25,   *)
(* and otherwise lies a little above or below it, which decides the        *)
(* rounding where centi/102400 is halfway between two thousandths.  The    *)
(* float's bits are not modelled: both neighbours are outcomes there.      *)
RoundTotalGb(centi) ==
    LET q == (10 * centi) \div 1024
        r == (10 * centi) % 1024
    IN  IF 2 * r # 1024 \/ centi % 25 = 0
        THEN {RoundHalfEven(10 * centi, 1024)}
        ELSE {q, q + 1}

Rows(names, sizes) ==
    [k \in 1..Min(Len(names), Len(sizes)) |->
        [no |-> k, name |-> names[k], size |-> RoundRow(sizes[k])]]

(* A variant that totals the sizes as the rows show them. *)
print_info_total_of_rows(names, sizes) ==
    {[rows |-> Rows(names, sizes),
      total_size_mb |->
          RoundHalfEven(SumSeq([k \in 1..Len(sizes) |-> RoundRow(sizes[k])]), 10),
      total_size_gb |-> gb] :
        gb \in RoundTotalGb(
          RoundHalfEven(SumSeq([k \in 1..Len(sizes) |-> RoundRow(sizes[k])]), 10))}

(* modpacksize.py: the reports _print_info(mod_names, mod_sizes) can print. *)
print_info(names, sizes) ==
    {[rows |-> Rows(names, sizes),
      total_size_mb |-> RoundTotalMb(SumSeq(sizes)),
      total_size_gb |-> gb] : gb \in RoundTotalGb(RoundTotalMb(SumSeq(sizes)))}

(* unusedmods.py: its own copy of _print_info. *)
print_info_B(names, sizes) ==
    {[rows |-> Rows(names, sizes),
      total_size_mb |-> RoundTotalMb(SumSeq(sizes)),
      total_size_gb |-> gb] : gb \in RoundTotalGb(RoundTotalMb(SumSeq(sizes)))}

--------------------------------------------------------------------------
(* Size resolution: the loop of modpacksize.main and _get_mod_sizes *)

(* os.path.join(arma_root, '!Workshop', f'@{mod_name}'): arma_root and      *)
(* !Workshop are the same in every call, the folder name is what varies.    *)
FolderPath(name) == <<"@">> \o name

(* _get_dir_size: fso.GetFolder raises com_error for a folder that is not  *)
(* there; otherwise folder.Size / 1024.0 ** 2, held in KiB.                *)
get_dir_size(path) ==
    IF path \notin DOMAIN fs \/ fs[path] = NoFolder
    THEN Raised("com_error")
    ELSE Returned(fs[path])

Call(p, path) == [i |-> idx[p], path |-> path]

ModNameChoices == {<<"a">>, <<"a", ":">>, <<"a", "/">>}
Folders == {FolderPath(n) : n \in ModNameChoices \cup {<<"a", "-">>}}
SizeChoices == {10240, 256000}

InitResolve ==
    /\ prog = "A"
    /\ fs \in [Folders -> SizeChoices \cup {NoFolder}]
    /\ \E names \in SeqsUpTo(ModNameChoices, MaxMods) :
          mod_names = [p \in Progs |-> names]
    /\ mod_sizes = [p \in Progs |-> <<>>]
    /\ mod_name = [p \in Progs |-> <<>>]
    /\ mod_size = [p \in Progs |-> 0]
    /\ idx = [p \in Progs |-> 0]
    /\ lookups = [p \in Progs |-> <<>>]
    /\ report = [p \in Progs |-> NoReport]
    /\ pc = [p \in Progs |-> "for"]
    /\ IdleExtract /\ IdleSan /\ IdleUnused /\ IdlePrint

frame == <<prog, fs, varsExtract, varsSan, varsUnused, varsPrint>>

(* modpacksize.main: for mod_name in tqdm(mod_names) *)
A_For ==
    /\ pc["A"] = "for"
    /\ IF idx["A"] < Len(mod_names["A"])
       THEN /\ idx' = [idx EXCEPT !["A"] = @ + 1]
            /\ mod_name' = [mod_name EXCEPT !["A"] = mod_names["A"][idx["A"] + 1]]
            /\ pc' = [pc EXCEPT !["A"] = "try"]
       ELSE /\ pc' = [pc EXCEPT !["A"] = "print"]
            /\ UNCHANGED <<idx, mod_name>>
    /\ UNCHANGED <<frame, mod_names, mod_sizes, mod_size, lookups, report>>

(* modpacksize.main: the try body *)
A_Try ==
    /\ pc["A"] = "try"
    /\ LET path == FolderPath(mod_name["A"])
           r == get_dir_size(path)
       IN  /\ lookups' = [lookups EXCEPT !["A"] = Append(@, Call("A", path))]
           /\ IF r.raised
              THEN pc' = [pc EXCEPT !["A"] = "except"] /\ UNCHANGED mod_size
              ELSE /\ mod_size' = [mod_size EXCEPT !["A"] = r.value]
                   /\ pc' = [pc EXCEPT !["A"] = "append"]
    /\ UNCHANGED <<frame, mod_names, mod_sizes, mod_name, idx, report>>

(* A variant whose second failure is swallowed: on to the next name. *)
A_Except_skips_mod ==
    /\ pc["A"] = "except"
    /\ LET name == sanitize(mod_name["A"])
           path == FolderPath(name)
           r == get_dir_size(path)
       IN  /\ mod_name' = [mod_name EXCEPT !["A"] = name]
           /\ lookups' = [lookups EXCEPT !["A"] = Append(@, Call("A", path))]
           /\ IF r.raised
              THEN pc' = [pc EXCEPT !["A"] = "for"] /\ UNCHANGED mod_size
              ELSE /\ mod_size' = [mod_size EXCEPT !["A"] = r.value]
                   /\ pc' = [pc EXCEPT !["A"] = "append"]
    /\ UNCHANGED <<frame, mod_names, mod_sizes, idx, report>>

(* A variant that writes the sanitized name back into the list. *)
A_Except_renames_in_list ==
    /\ pc["A"] = "except"
    /\ LET name == sanitize(mod_name["A"])
           path == FolderPath(name)
           r == get_dir_size(path)
       IN  /\ mod_name' = [mod_name EXCEPT !["A"] = name]
           /\ mod_names' = [mod_names EXCEPT !["A"][idx["A"]] = name]
           /\ lookups' = [lookups EXCEPT !["A"] = Append(@, Call("A", path))]
           /\ IF r.raised
              THEN pc' = [pc EXCEPT !["A"] = "error"] /\ UNCHANGED mod_size
              ELSE /\ mod_size' = [mod_size EXCEPT !["A"] = r.value]
                   /\ pc' = [pc EXCEPT !["A"] = "append"]
    /\ UNCHANGED <<frame, mod_sizes, idx, report>>

(* modpacksize.main: except com_error.  The second _get_dir_size is not in *)
(* a try: its com_error leaves main.                                       *)
A_Except ==
    /\ pc["A"] = "except"
    /\ LET name == sanitize(mod_name["A"])
           path == FolderPath(name)
           r == get_dir_size(path)
       IN  /\ mod_name' = [mod_name EXCEPT !["A"] = name]
           /\ lookups' = [lookups EXCEPT !["A"] = Append(@, Call("A", path))]
           /\ IF r.raised
              THEN pc' = [pc EXCEPT !["A"] = "error"] /\ UNCHANGED mod_size
              ELSE /\ mod_size' = [mod_size EXCEPT !["A"] = r.value]
                   /\ pc' = [pc EXCEPT !["A"] = "append"]
    /\ UNCHANGED <<frame, mod_names, mod_sizes, idx, report>>

(* A variant with the append inside the try: no append after a fallback. *)
A_Append_only_in_try ==
    /\ pc["A"] = "append"
    /\ mod_sizes' = [mod_sizes EXCEPT !["A"] =
          IF mod_name["A"] = mod_names["A"][idx["A"]] THEN Append(@, mod_size["A"]) ELSE @]
    /\ pc' = [pc EXCEPT !["A"] = "for"]
    /\ UNCHANGED <<frame, mod_names, mod_name, mod_size, idx, lookups, report>>

(* modpacksize.main: mod_sizes.append(mod_size) *)
A_Append ==
    /\ pc["A"] = "append"
    /\ mod_sizes' = [mod_sizes EXCEPT !["A"] = Append(@, mod_size["A"])]
    /\ pc' = [pc EXCEPT !["A"] = "for"]
    /\ UNCHANGED <<frame, mod_names, mod_name, mod_size, idx, lookups, report>>

(* modpacksize.main: _print_info(mod_names, mod_sizes) *)
A_Print ==
    /\ pc["A"] = "print"
    /\ \E r \in print_info(mod_names["A"], mod_sizes["A"]) :
          report' = [report EXCEPT !["A"] = r]
    /\ pc' = [pc EXCEPT !["A"] = "done"]
    /\ UNCHANGED <<frame, mod_names, mod_sizes, mod_name, mod_size, idx, lookups>>

(* unusedmods._get_mod_sizes: for mod_name in tqdm(mod_names); when the    *)
(* list is exhausted, return mod_sizes to main.                            *)
B_For ==
    /\ pc["B"] = "for"
    /\ IF idx["B"] < Len(mod_names["B"])
       THEN /\ idx' = [idx EXCEPT !["B"] = @ + 1]
            /\ mod_name' = [mod_name EXCEPT !["B"] = mod_names["B"][idx["B"] + 1]]
            /\ pc' = [pc EXCEPT !["B"] = "try"]
       ELSE /\ pc' = [pc EXCEPT !["B"] = "print"]
            /\ UNCHANGED <<idx, mod_name>>
    /\ UNCHANGED <<frame, mod_names, mod_sizes, mod_size, lookups, report>>

(* unusedmods._get_mod_sizes: the try body *)
B_Try ==
    /\ pc["B"] = "try"
    /\ LET path == FolderPath(mod_name["B"])
           r == get_dir_size(path)
       IN  /\ lookups' = [lookups EXCEPT !["B"] = Append(@, Call("B", path))]
           /\ IF r.raised
              THEN pc' = [pc EXCEPT !["B"] = "except"] /\ UNCHANGED mod_size
              ELSE /\ mod_size' = [mod_size EXCEPT !["B"] = r.value]
                   /\ pc' = [pc EXCEPT !["B"] = "append"]
    /\ UNCHANGED <<frame, mod_names, mod_sizes, mod_name, idx, report>>

(* unusedmods._get_mod_sizes: except com_error.  The com_error of the      *)
(* second _get_dir_size leaves _get_mod_sizes and main.                    *)
B_Except ==
    /\ pc["B"] = "except"
    /\ LET name == sanitize_B(mod_name["B"])
           path == FolderPath(name)
           r == get_dir_size(path)
       IN  /\ mod_name' = [mod_name EXCEPT !["B"] = name]
           /\ lookups' = [lookups EXCEPT !["B"] = Append(@, Call("B", path))]
           /\ IF r.raised
              THEN pc' = [pc EXCEPT !["B"] = "error"] /\ UNCHANGED mod_size
              ELSE /\ mod_size' = [mod_size EXCEPT !["B"] = r.value]
                   /\ pc' = [pc EXCEPT !["B"] = "append"]
    /\ UNCHANGED <<frame, mod_names, mod_sizes, idx, report>>

(* unusedmods._get_mod_sizes: mod_sizes.append(mod_size) *)
B_Append ==
    /\ pc["B"] = "append"
    /\ mod_sizes' = [mod_sizes EXCEPT !["B"] = Append(@, mod_size["B"])]
    /\ pc' = [pc EXCEPT !["B"] = "for"]
    /\ UNCHANGED <<frame, mod_names, mod_name, mod_size, idx, lookups, report>>

(* unusedmods.main: _print_info(unused_mod_names, unused_mod_sizes) *)
B_Print ==
    /\ pc["B"] = "print"
    /\ \E r \in print_info_B(mod_names["B"], mod_sizes["B"]) :
          report' = [report EXCEPT !["B"] = r]
    /\ pc' = [pc EXCEPT !["B"] = "done"]
    /\ UNCHANGED <<frame, mod_names, mod_sizes, mod_name, mod_size, idx, lookups>>

Next ==
    \/ A_For \/ A_Try \/ A_Except \/ A_Append \/ A_Print
    \/ B_For \/ B_Try \/ B_Except \/ B_Append \/ B_Print

Init == InitResolve

Spec == Init /\ [][Next]_vars

--------------------------------------------------------------------------
(* What the claims about size resolution speak of *)

Special(n) == \E k \in 1..Len(n) : n[k] \in {":", "/"}
Dashed(n) == [k \in 1..Len(n) |-> IF n[k] \in {":", "/"} THEN "-" ELSE n[k]]
Dir(n) == <<"@">> \o n
Present(n) == fs[Dir(n)] # NoFolder
ResolvedDir(n) == IF Present(n) THEN Dir(n) ELSE Dir(Dashed(n))
CallsFor(p, k) == SelectSeq(lookups[p], LAMBDA c : c.i = k)
Paths(calls) == [k \in 1..Len(calls) |-> calls[k].path]
Finished(p) == pc[p] \in {"done", "error"}
IsPrefix(s, t) == Len(s) <= Len(t) /\ \A k \in 1..Len(s) : s[k] = t[k]
NeedsFallback(n) == Special(n) /\ ~Present(n) /\ Present(Dashed(n))

(* C4: sizes are appended one at a time in the order of the names, element  *)
(* k being the size of the folder name k resolved to (its literal folder,   *)
(* or the sanitized one when the literal one is not there); when the loop   *)
(* ends without error the size list is as long as the name list.            *)
C4_SizesParallelToNames ==
    \A p \in Progs :
        /\ Len(mod_sizes[p]) <= idx[p]
        /\ idx[p] <= Len(mod_sizes[p]) + 1
        /\ pc[p] = "for" => Len(mod_sizes[p]) = idx[p]
        /\ \A k \in 1..Len(mod_sizes[p]) :
              /\ mod_sizes[p][k] # NoFolder
              /\ mod_sizes[p][k] = fs[ResolvedDir(mod_names[p][k])]
        /\ pc[p] \in {"print", "done"} => Len(mod_sizes[p]) = Len(mod_names[p])

C4_Witness ==
    \A p \in Progs :
        /\ pc[p] = "done"
        /\ Len(mod_names[p]) = 2 /\ Len(mod_sizes[p]) = 2
        /\ ~Present(mod_names[p][1]) /\ Present(mod_names[p][2])
        /\ mod_sizes[p][1] # mod_sizes[p][2]

(* C5: a name with ':' or '/' whose literal folder is missing and whose     *)
(* sanitized folder is there is resolved to the sanitized folder's size by  *)
(* exactly two lookups, the literal and then the sanitized folder, raises   *)
(* no error, and the loop goes on to the next name.                         *)
C5_FallbackResolves ==
    \A p \in Progs : \A k \in 1..idx[p] :
        (NeedsFallback(mod_names[p][k]) /\ (k < idx[p] \/ pc[p] \in {"append", "error", "for"})) =>
            /\ ~(k = idx[p] /\ pc[p] = "error")
            /\ Paths(CallsFor(p, k)) = <<Dir(mod_names[p][k]), Dir(Dashed(mod_names[p][k]))>>
            /\ (k = idx[p] /\ pc[p] = "append") => mod_size[p] = fs[Dir(Dashed(mod_names[p][k]))]
            /\ k <= Len(mod_sizes[p]) => mod_sizes[p][k] = fs[Dir(Dashed(mod_names[p][k]))]

C5_Witness ==
    \A p \in Progs :
        /\ idx[p] = 2 /\ pc[p] = "try"
        /\ mod_names[p][1] = <<"a", "/">>
        /\ NeedsFallback(mod_names[p][1])
        /\ Len(lookups[p]) = 2
        /\ mod_sizes[p] = <<fs[Dir(<<"a", "-">>)]>>

(* C6: when both the literal and the sanitized lookup of a name fail the    *)
(* program is in its error state at that name, with no lookup after the     *)
(* failed one, no size appended for that name and no report; a report is    *)
(* printed only when every name of the list was resolved.                   *)
C6_SecondFailureIsFatal ==
    \A p \in Progs :
        /\ \A k \in 1..idx[p] :
              (Len(CallsFor(p, k)) >= 2 /\ ~Present(Dashed(mod_names[p][k]))) =>
                  pc[p] = "error" /\ k = idx[p]
        /\ pc[p] = "error" =>
              /\ idx[p] >= 1
              /\ ~Present(mod_names[p][idx[p]])
              /\ ~Present(Dashed(mod_names[p][idx[p]]))
              /\ Paths(CallsFor(p, idx[p])) =
                    <<Dir(mod_names[p][idx[p]]), Dir(Dashed(mod_names[p][idx[p]]))>>
              /\ Last(lookups[p]).i = idx[p]
              /\ Len(mod_sizes[p]) = idx[p] - 1
              /\ report[p] = NoReport
        /\ report[p] # NoReport =>
              /\ pc[p] = "done"
              /\ Len(mod_sizes[p]) = Len(mod_names[p])
              /\ \A k \in 1..Len(mod_names[p]) : fs[ResolvedDir(mod_names[p][k])] # NoFolder

C6_Witness ==
    \A p \in Progs :
        /\ pc[p] = "error"
        /\ idx[p] = 1 /\ Len(mod_names[p]) = 2
        /\ Present(mod_names[p][2])
        /\ Special(mod_names[p][1])

(* C9: on the same names and the same file system the loop of               *)
(* modpacksize.main and _get_mod_sizes make the same lookups in the same    *)
(* order and end alike: with the same sizes, or in error at the same name.  *)
C9_SameResolution ==
    mod_names["A"] = mod_names["B"] =>
        /\ IsPrefix(lookups["A"], lookups["B"]) \/ IsPrefix(lookups["B"], lookups["A"])
        /\ (Finished("A") /\ Finished("B")) =>
              /\ lookups["A"] = lookups["B"]
              /\ pc["A"] = pc["B"]
              /\ idx["A"] = idx["B"]
              /\ mod_sizes["A"] = mod_sizes["B"]

C9_Witness ==
    /\ pc["A"] = "error" /\ pc["B"] = "error"
    /\ idx["A"] = 2
    /\ Len(lookups["A"]) = 4
    /\ NeedsFallback(mod_names["A"][1])

(* C10: the size loop never changes the list of names it goes through, and  *)
(* row k of the report holds ordinal k, name k of that list as it was       *)
(* extracted (not its sanitized form) and the rounded size k.               *)
C10_NamesUntouched ==
    /\ [][mod_names' = mod_names]_vars
    /\ [](\A p \in Progs : report[p] # NoReport =>
            /\ Len(report[p].rows) = Len(mod_names[p])
            /\ \A k \in 1..Len(report[p].rows) :
                  /\ report[p].rows[k].no = k
                  /\ report[p].rows[k].name = mod_names[p][k]
                  /\ Paths(CallsFor(p, k))[1] = Dir(report[p].rows[k].name)
                  /\ 1024 * report[p].rows[k].size - 1000 * mod_sizes[p][k] \in -512..512)

C10_Witness ==
    \A p \in Progs :
        /\ report[p] # NoReport
        /\ Len(report[p].rows) = 2
        /\ report[p].rows[2].name = <<"a", ":">>
        /\ ~Present(<<"a", ":">>)
        /\ report[p].rows[2].size = 250000

--------------------------------------------------------------------------
(* unusedmods.main up to the size loop *)

Perms(S) == {s \in [1..Cardinality(S) -> S] : \A i, j \in DOMAIN s : s[i] = s[j] => i = j}

(* A variant that keeps one occurrence of each name: a set difference. *)
RECURSIVE unused_first_occurrences(_, _)
unused_first_occurrences(all, active) ==
    IF all = <<>> THEN <<>>
    ELSE LET front == unused_first_occurrences(SubSeq(all, 1, Len(all) - 1), active)
             m == all[Len(all)]
         IN  IF m \in Range(active) \/ m \in Range(front) THEN front ELSE Append(front, m)

(* [mod for mod in all_mod_names if mod not in active_mod_names] *)
unused(all, active) == SelectSeq(all, LAMBDA mod : mod \notin Range(active))

Alpha == <<"A">>
Beta == <<"B">>
Gamma == <<"G">>
NameTd(n) == Td("ModContainer", "DisplayName", n)
ActiveTds == {NameTd(Alpha), NameTd(Beta)}
AllTds == {NameTd(Alpha), NameTd(Beta), NameTd(Gamma)}

InitUnused ==
    /\ prog = "B"
    /\ \E n \in 1..MaxFiles : html_files \in [1..n -> SeqsUpTo(ActiveTds, MaxActiveLen)]
    /\ all_mods_file \in SeqsUpTo(AllTds, MaxAllLen)
    /\ active_mod_names = <<>> /\ all_mod_names = <<>> /\ unused_mod_names = <<>>
    /\ file_no = 0 /\ upc = "active"
    /\ IdleExtract /\ IdleSan /\ IdleResolve /\ IdlePrint

frameU == <<prog, html_files, all_mods_file, varsExtract, varsSan, varsResolve, varsPrint>>

(* for html_file in args.html_files: active_mod_names.extend(...) *)
U_ReadActive ==
    /\ upc = "active" /\ file_no < Len(html_files)
    /\ LET r == get_mod_names_B(html_files[file_no + 1])
       IN  IF r.raised
           THEN upc' = "error" /\ UNCHANGED <<active_mod_names, file_no>>
           ELSE /\ active_mod_names' = active_mod_names \o r.value
                /\ file_no' = file_no + 1
                /\ upc' = "active"
    /\ UNCHANGED <<frameU, all_mod_names, unused_mod_names>>

(* active_mod_names = list(set(active_mod_names)): the set's elements in   *)
(* whatever order the set iterates.                                        *)
U_Dedup ==
    /\ upc = "active" /\ file_no = Len(html_files)
    /\ active_mod_names' \in Perms(Range(active_mod_names))
    /\ upc' = "all"
    /\ UNCHANGED <<frameU, all_mod_names, unused_mod_names, file_no>>

(* all_mod_names = _get_mod_names(soup) of the all-mods file *)
U_ReadAll ==
    /\ upc = "all"
    /\ LET r == get_mod_names_B(all_mods_file)
       IN  IF r.raised
           THEN upc' = "error" /\ UNCHANGED all_mod_names
           ELSE all_mod_names' = r.value /\ upc' = "filter"
    /\ UNCHANGED <<frameU, active_mod_names, unused_mod_names, file_no>>

(* unused_mod_names = [...]; next is _get_mod_sizes(unused_mod_names, ...) *)
U_Filter ==
    /\ upc = "filter"
    /\ unused_mod_names' = unused(all_mod_names, active_mod_names)
    /\ upc' = "sizes"
    /\ UNCHANGED <<frameU, active_mod_names, all_mod_names, file_no>>

NextUnused == U_ReadActive \/ U_Dedup \/ U_ReadAll \/ U_Filter

SpecUnused == InitUnused /\ [][NextUnused]_vars

ActiveSet == UNION {Range(NamesOf(html_files[f])) : f \in 1..Len(html_files)}
Count(s, x) == Cardinality({k \in 1..Len(s) : s[k] = x})

(* C1: the unused-mod list is the all-mods name sequence without the names  *)
(* that occur in any active modpack, in the all-mods order; a name that is  *)
(* in no active modpack occurs as often as in the all-mods sequence, a name *)
(* that is in one does not occur.                                           *)
C1_UnusedIsStableFilter ==
    upc = "sizes" =>
        /\ unused_mod_names =
              SelectSeq(NamesOf(all_mods_file), LAMBDA n : n \notin ActiveSet)
        /\ \A n \in {Alpha, Beta, Gamma} :
              Count(unused_mod_names, n) =
                  (IF n \in ActiveSet THEN 0 ELSE Count(NamesOf(all_mods_file), n))

C1_Witness ==
    /\ upc = "sizes"
    /\ Len(html_files) = 2
    /\ NamesOf(html_files[1]) = <<Beta>> /\ NamesOf(html_files[2]) = <<Beta>>
    /\ all_mod_names = <<Gamma, Beta, Gamma, Beta>>
    /\ unused_mod_names = <<Gamma, Gamma>>

--------------------------------------------------------------------------
(* _print_info on its own *)

PrintNames == {<<"a">>, <<"a", ":">>}
PrintSizes == {1, 14, 128, 2621, 65536, 10240, 256000}

InitPrint ==
    /\ prog \in Progs
    /\ \E n \in 0..MaxRows :
          /\ p_names \in [1..n -> PrintNames]
          /\ p_sizes \in [1..n -> PrintSizes]
    /\ printed = NoReport
    /\ IdleExtract /\ IdleSan /\ IdleResolve /\ IdleUnused

A_PrintInfo ==
    /\ prog = "A" /\ printed = NoReport
    /\ printed' \in print_info(p_names, p_sizes)
    /\ UNCHANGED <<prog, p_names, p_sizes, varsExtract, varsSan, varsResolve, varsUnused>>

B_PrintInfo ==
    /\ prog = "B" /\ printed = NoReport
    /\ printed' \in print_info_B(p_names, p_sizes)
    /\ UNCHANGED <<prog, p_names, p_sizes, varsExtract, varsSan, varsResolve, varsUnused>>

NextPrint == A_PrintInfo \/ B_PrintInfo

SpecPrint == InitPrint /\ [][NextPrint]_vars

(* x is num/den rounded to an integer: a nearest one. *)
IsRounded(x, num, den) == den * x - num \in -(den \div 2)..(den \div 2)

(* C8: the printed total MB is the sum of the sizes as they are, not as the *)
(* rows show them, rounded to hundredths; the printed total GB is that      *)
(* printed total MB over 1024, rounded to thousandths; sizes of 10 MB and   *)
(* 250 MB give rows 1 and 2 and a total of 260.0 MB (0.254 GB).             *)
C8_TotalsFromUnroundedSizes ==
    printed # NoReport =>
        /\ IsRounded(printed.total_size_mb, 100 * SumSeq(p_sizes), 1024)
        /\ IsRounded(printed.total_size_gb, 10 * printed.total_size_mb, 1024)
        /\ p_sizes = <<10240, 256000>> =>
              /\ Len(printed.rows) = 2
              /\ printed.rows[1].no = 1 /\ printed.rows[2].no = 2
              /\ printed.rows[1].size = 10000 /\ printed.rows[2].size = 250000
              /\ printed.total_size_mb = 26000
              /\ printed.total_size_gb = 254

C8_Witness ==
    /\ printed # NoReport
    /\ p_sizes = <<10240, 256000>>
    /\ printed.total_size_mb = 26000

====
